---- MODULE Spec2Model ----
(***************************************************************************)
(* A model of lithium/lithium.py: Lithium.download_all_sds and the         *)
(* coroutines it drives (search_cas_numbers, _download_single_sds_with_dir,*)
(* download_single_sds), run on one asyncio event loop.  Every step of the *)
(* model is the code between two awaits of one coroutine.                  *)
(***************************************************************************)
EXTENDS Integers, Sequences, FiniteSets, Bags, TLC

(***************************************************************************)
(* Bounds of the model.                                                    *)
(***************************************************************************)
\* The value given to max_retries (a constructor argument, default 5).
MaxRetries == 2
\* The largest download_chunk_size / metadata_chunk_size that is tried.
MaxChunk == 2
\* The largest number of CAS numbers the registry (or the CAS cache) holds.
MaxCas == 3
\* The most failures the environment injects in one stage of a run (failed
\* requests, error statuses, broken streams, failed file operations); the
\* stages are the metadata stage and the download stage.
MaxFaults == 4
\* The number of letters of ascii_letters that generate_key shuffles.
MaxLetters == 3
\* The most result groups in a search response, and items in a group.
MaxItems == 2

(***************************************************************************)
(* Values.                                                                 *)
(***************************************************************************)
\* JSON null in a casNumber field.
JsonNull == "<null>"
\* Python's None as an element of a list of descriptors.
None == [none |-> TRUE]
\* A path at which no file exists, and a file as the chunks it holds.
NoFile == [exists |-> FALSE, content |-> << >>]

File(content) == [exists |-> TRUE, content |-> content]

\* search_cas_numbers' two kinds of result: None, or a list of descriptors.
NoResult == [isNone |-> TRUE, list |-> << >>]

Result(list) == [isNone |-> FALSE, list |-> list]

\* A byte range of a file that was never written (a hole left by a seek-less
\* write past the end of a truncated file).
Hole == << "<hole>" >>
\* What json.loads does with a text that is not a complete JSON document.
ParseError == [ok |-> FALSE, value |-> << >>]

Parsed(value) == [ok |-> TRUE, value |-> value]

\* The statuses the document source answers with, besides 200.
ErrorStatuses == {404, 500}

(***************************************************************************)
(* The collaborators: the registry and the vendor catalog.                 *)
(***************************************************************************)
Item(name, brand, productKey, casNumber) ==
    [name |-> name, brand |-> brand, productKey |-> productKey, casNumber |-> casNumber]

\* The items the vendor search returns for one CAS number (one result group).
Catalog(cas) ==
    CASE cas = "50-00-0" ->
           << Item("Formaldehyde", "SIAL", "F8775", "50-00-0"),
              Item("Formalin kit", "MM", "1.00496", JsonNull) >>
      [] cas = "64-17-5" ->
           << Item("Ethanol", "SIGALD", "E7023", "64-17-5") >>
      [] cas = "7732-18-5" ->
           << Item("Water", "SIAL", "W4502", "") >>
      [] OTHER -> << >>

\* The registry answers with a prefix of this list (the source does not
\* deduplicate what the registry returns).
RegistryList == << "50-00-0", "50-00-0", "64-17-5", "7732-18-5" >>

Min(a, b) == IF a < b THEN a ELSE b

Registries ==
    { SubSeq(RegistryList, 1, Min(n, Len(RegistryList))) : n \in 0..MaxCas }

\* The document body the source streams for a descriptor, as its chunks.
Body(sds) ==
    << <<"%PDF", sds.brand, sds.product_number>>, <<"%%EOF", sds.brand, sds.product_number>> >>

(***************************************************************************)
(* Pure functions of the code.                                             *)
(***************************************************************************)
RECURSIVE Flatten(_)
Flatten(seqs) ==
    IF seqs = << >> THEN << >> ELSE Head(seqs) \o Flatten(Tail(seqs))

\* (A variant of chunked that drops a last slice shorter than n.)
RECURSIVE Chunked_dropsTail(_, _)
Chunked_dropsTail(seq, n) ==
    IF Len(seq) < n THEN << >>
    ELSE << SubSeq(seq, 1, n) >> \o Chunked_dropsTail(SubSeq(seq, n + 1, Len(seq)), n)

\* more_itertools.chunked(iterable, n): slices of n items, in order; the last
\* slice holds what is left.
RECURSIVE Chunked(_, _)
Chunked(seq, n) ==
    IF seq = << >> THEN << >>
    ELSE << SubSeq(seq, 1, Min(n, Len(seq))) >>
         \o Chunked(SubSeq(seq, Min(n, Len(seq)) + 1, Len(seq)), n)

\* json.dumps of a list: the text, as the items it spells out and whether the
\* closing bracket is there.  A text cut short is a prefix of it.
Dumps(list) == [exists |-> TRUE, items |-> list, closed |-> TRUE]

\* A cache path at which no file exists, and the file open(path, "w") leaves.
NoCache == [exists |-> FALSE, items |-> << >>, closed |-> FALSE]

EmptyText == [exists |-> TRUE, items |-> << >>, closed |-> FALSE]

Truncations(text) ==
    { [exists |-> TRUE, items |-> SubSeq(text.items, 1, k), closed |-> FALSE] :
        k \in 0..Len(text.items) }

\* json.loads: the list, or JSONDecodeError for a text that is cut short.
Loads(text) == IF text.closed THEN Parsed(text.items) ELSE ParseError

\* The list comprehension of search_cas_numbers over data.values().
RECURSIVE Descriptors(_)
Descriptors(items) ==
    IF items = << >> THEN << >>
    ELSE LET item == Head(items)
         IN (IF item.casNumber # JsonNull
             THEN << [name |-> item.name, brand |-> item.brand,
                      product_number |-> item.productKey,
                      cas_number |-> item.casNumber] >>
             ELSE << >>) \o Descriptors(Tail(items))

RECURSIVE Groups(_)
Groups(cas_list) ==
    IF cas_list = << >> THEN << >>
    ELSE Catalog(Head(cas_list)) \o Groups(Tail(cas_list))

\* more_itertools.collapse(results, base_type=dict): lists are flattened, a
\* dict is kept, and None (not iterable) is kept as an element.
RECURSIVE Collapse(_)
Collapse(results) ==
    IF results = << >> THEN << >>
    ELSE (IF Head(results).isNone THEN << None >> ELSE Head(results).list)
         \o Collapse(Tail(results))

\* output / sds["cas_number"] / f"{sds['brand']}_{sds['product_number']}.pdf"
Path(sds) ==
    << "output", sds.cas_number, sds.brand \o "_" \o sds.product_number \o ".pdf" >>

\* A write of one chunk through a file handle at offset pos.
WriteAt(content, pos, chunk) ==
    [k \in 1..(IF pos + 1 > Len(content) THEN pos + 1 ELSE Len(content)) |->
        IF k = pos + 1 THEN chunk
        ELSE IF k <= Len(content) THEN content[k]
        ELSE Hole]

(***************************************************************************)
(* The state.                                                              *)
(***************************************************************************)
VARIABLES
    pc,                  \* where download_all_sds stands
    download_chunk_size, \* its argument
    metadata_chunk_size, \* its argument
    registry,            \* what the registry answers to get_cas_numbers
    metaCache,           \* the file at metadata_cache_file
    casCache,            \* the file at cas_cache_file
    errorLog,            \* the file lithium_dir / "error.log"
    logOpen,             \* whether the handle f on error.log is open
    files,               \* the files below the output directory, by path
    cas_numbers,         \* local of download_all_sds
    results,             \* the results of the search_cas_numbers awaited so far
    sattempt,            \* search_cas_numbers: the iteration of its retry loop
    sds_data,            \* local of download_all_sds
    batchNo,             \* the index i + 1 of the loop over chunked_data
    ops,                 \* the _download_single_sds_with_dir coroutines launched
    frame,               \* the locals of the coroutines of the running batch
    faults,              \* history: the failures injected in the current stage
    metaAtStart,         \* history: the metadata cache file when the run began
    keys,                \* self._keys
    input,               \* the arguments of a function that is called on its own
    output               \* what that function has produced

vars ==
    << pc, download_chunk_size, metadata_chunk_size, registry, metaCache, casCache,
       errorLog, logOpen, files, cas_numbers, results, sattempt, sds_data, batchNo,
       ops, frame, faults, metaAtStart, keys, input, output >>

\* The environment injects a failure, or does not.
Fault == faults < MaxFaults /\ faults' = faults + 1

NoFault == faults' = faults

\* self.max_retries
max_retries == MaxRetries

\* Every descriptor the catalog can yield, and every download target path.
AllSds ==
    { Descriptors(Groups(RegistryList))[k] :
        k \in 1..Len(Descriptors(Groups(RegistryList))) }

AllPaths == { Path(sds) : sds \in AllSds }

\* A record left in error.log by an earlier run.
StaleRecord ==
    [status |-> 404, name |-> "Acetone", brand |-> "SIAL",
     product_number |-> "179124", cas_number |-> "67-64-1"]

NoLog == [exists |-> FALSE, lines |-> << >>]

Init ==
    /\ pc = "start"
    /\ download_chunk_size \in 1..MaxChunk
    /\ metadata_chunk_size = MaxChunk + 1 - download_chunk_size
    /\ registry \in Registries
    /\ \E earlier \in {"none", "cas", "all"} :
         \* what an earlier, completed run left behind
         /\ casCache = IF earlier = "none" THEN NoCache ELSE Dumps(registry)
         /\ metaCache = IF earlier = "all"
                        THEN Dumps(Descriptors(Groups(registry)))
                        ELSE NoCache
         /\ errorLog = IF earlier = "all"
                       THEN [exists |-> TRUE, lines |-> << StaleRecord >>]
                       ELSE NoLog
    /\ logOpen = FALSE
    /\ files = [p \in AllPaths |-> NoFile]
    /\ cas_numbers = << >>
    /\ results = << >>
    /\ sattempt = 1
    /\ sds_data = << >>
    /\ batchNo = 1
    /\ ops = << >>
    /\ frame = << >>
    /\ faults = 0
    /\ metaAtStart = metaCache
    /\ keys = {}
    /\ input = << >>
    /\ output = << >>

(***************************************************************************)
(* download_all_sds: the cache layer and the metadata stage.               *)
(***************************************************************************)
runVars ==
    << download_chunk_size, metadata_chunk_size, registry, metaAtStart,
       keys, input, output >>

\* Lines 209-212: the metadata cache file exists and is loaded.
LoadMetadataCache ==
    /\ pc = "start"
    /\ metaCache.exists
    /\ IF Loads(metaCache).ok
       THEN /\ sds_data' = Loads(metaCache).value
            /\ pc' = "open_log"
       ELSE /\ sds_data' = sds_data
            /\ pc' = "raised"
    /\ NoFault
    /\ UNCHANGED << runVars, metaCache, casCache, errorLog, logOpen, files,
                    cas_numbers, results, sattempt, batchNo, ops, frame >>

\* (A variant that loads the CAS cache without looking at the metadata cache.)
LoadCasCache_ignoresMetadataCache ==
    /\ pc = "start"
    /\ casCache.exists
    /\ IF Loads(casCache).ok
       THEN /\ cas_numbers' = Loads(casCache).value
            /\ pc' = "search"
       ELSE /\ cas_numbers' = cas_numbers
            /\ pc' = "raised"
    /\ NoFault
    /\ UNCHANGED << runVars, metaCache, casCache, errorLog, logOpen, files,
                    results, sattempt, sds_data, batchNo, ops, frame >>

\* Lines 217-219: the CAS cache file exists and is loaded.
LoadCasCache ==
    /\ pc = "start"
    /\ ~ metaCache.exists
    /\ casCache.exists
    /\ IF Loads(casCache).ok
       THEN /\ cas_numbers' = Loads(casCache).value
            /\ pc' = "search"
       ELSE /\ cas_numbers' = cas_numbers
            /\ pc' = "raised"
    /\ NoFault
    /\ UNCHANGED << runVars, metaCache, casCache, errorLog, logOpen, files,
                    results, sattempt, sds_data, batchNo, ops, frame >>

\* Lines 221, 87-91: no cache file; get_cas_numbers sends its request.
RequestCasNumbers ==
    /\ pc = "start"
    /\ ~ metaCache.exists
    /\ ~ casCache.exists
    /\ pc' = "get_cas"
    /\ NoFault
    /\ UNCHANGED << runVars, metaCache, casCache, errorLog, logOpen, files,
                    cas_numbers, results, sattempt, sds_data, batchNo, ops, frame >>

\* Lines 92-95, 222: the registry answers; on success the CAS cache file is
\* opened for writing, which creates it empty.  A failure (transport, status,
\* body) propagates out of download_all_sds.
GetCasNumbersResponse ==
    /\ pc = "get_cas"
    /\ \/ /\ NoFault
          /\ cas_numbers' = registry
          /\ casCache' = EmptyText
          /\ pc' = "write_cas"
       \/ /\ Fault
          /\ pc' = "raised"
          /\ UNCHANGED << cas_numbers, casCache >>
    /\ UNCHANGED << runVars, metaCache, errorLog, logOpen, files, results, sattempt,
                    sds_data, batchNo, ops, frame >>

\* Line 223 and the close of the file: the text is written, or the write
\* fails part-way and the exception propagates.
WriteCasCache ==
    /\ pc = "write_cas"
    /\ \/ /\ NoFault
          /\ casCache' = Dumps(cas_numbers)
          /\ pc' = "search"
       \/ /\ Fault
          /\ casCache' \in Truncations(Dumps(cas_numbers))
          /\ pc' = "raised"
    /\ UNCHANGED << runVars, metaCache, errorLog, logOpen, files, cas_numbers,
                    results, sattempt, sds_data, batchNo, ops, frame >>

\* Lines 225-228: the coroutines of the metadata stage, one per chunk.
MetadataChunks == Chunked(cas_numbers, metadata_chunk_size)

\* Lines 114-134: what one iteration of the retry loop that did not break
\* leads to: the next iteration, or the else clause (return None).
SearchRetry ==
    IF sattempt < max_retries
    THEN /\ sattempt' = sattempt + 1
         /\ results' = results
    ELSE /\ sattempt' = 1
         /\ results' = Append(results, NoResult)

\* Lines 113-150, 233: one request of search_cas_numbers for the chunk being
\* awaited, and what its answer leads to.
SearchCasNumbers ==
    /\ pc = "search"
    /\ Len(results) < Len(MetadataChunks)
    /\ LET chunk == MetadataChunks[Len(results) + 1]
       IN \/ \* a transport exception, or raise_for_status raises: suppressed
             /\ Fault
             /\ SearchRetry
             /\ pc' = pc
          \/ \* 200 and a body with data: break, then the list comprehension
             /\ NoFault
             /\ results' = Append(results, Result(Descriptors(Groups(chunk))))
             /\ sattempt' = 1
             /\ pc' = pc
          \/ \* 200 and a body whose data is null
             /\ Fault
             /\ results' = Append(results, Result(<< >>))
             /\ sattempt' = 1
             /\ pc' = pc
          \/ \* 200 and a body that is not as expected: res.json()["data"] or
             \* the comprehension raises, outside suppress
             /\ Fault
             /\ pc' = "raised"
             /\ UNCHANGED << results, sattempt >>
    /\ UNCHANGED << runVars, metaCache, casCache, errorLog, logOpen, files,
                    cas_numbers, sds_data, batchNo, ops, frame >>

\* Lines 233-235: every chunk is resolved; the results are collapsed and the
\* metadata cache file is opened for writing, which creates it empty.
CollapseResults ==
    /\ pc = "search"
    /\ Len(results) = Len(MetadataChunks)
    /\ sds_data' = Collapse(results)
    /\ results' = << >>
    /\ metaCache' = EmptyText
    /\ pc' = "write_meta"
    /\ NoFault
    /\ UNCHANGED << runVars, casCache, errorLog, logOpen, files, cas_numbers,
                    sattempt, batchNo, ops, frame >>

\* Line 236 and the close of the file.
WriteMetadataCache ==
    /\ pc = "write_meta"
    /\ \/ /\ NoFault
          /\ metaCache' = Dumps(sds_data)
          /\ pc' = "open_log"
       \/ /\ Fault
          /\ metaCache' \in Truncations(Dumps(sds_data))
          /\ pc' = "raised"
    /\ UNCHANGED << runVars, casCache, errorLog, logOpen, files, cas_numbers,
                    results, sattempt, sds_data, batchNo, ops, frame >>

(***************************************************************************)
(* download_all_sds: the download stage.                                   *)
(***************************************************************************)
\* (Variants of lines 241-247: one that loses a last batch that is not full,
\* one that chunks by metadata_chunk_size.)
Batches_dropsTail == Chunked_dropsTail(sds_data, download_chunk_size)

Batches_metadataChunkSize == Chunked(sds_data, metadata_chunk_size)

\* Lines 241-247: the batches of the download stage.
Batches == Chunked(sds_data, download_chunk_size)

\* The coroutines of batch b, by their index in ops.
OpsOfBatch(b) == { i \in 1..Len(ops) : ops[i].batch = b }

Terminal(op) == op.pc \in {"done", "raised"}

\* The operations launched and not yet at a terminal state.
InFlight == { i \in 1..Len(ops) : ~ Terminal(ops[i]) }

\* The locals of download_single_sds when _download_single_sds_with_dir is
\* created; requests, lastBad, gotStatus and completedAt are history.
NewFrame ==
    [attempt |-> 0, status_code |-> -1, pos |-> 0,
     requests |-> 0, lastBad |-> -1, gotStatus |-> FALSE, completedAt |-> 0]

NewOp(sds, b) ==
    [sds |-> sds, batch |-> b, pc |-> "new", returned |-> FALSE, ret |-> -1]

\* Line 252: error.log is opened with mode "w".
OpenErrorLog ==
    /\ pc = "open_log"
    /\ errorLog' = [exists |-> TRUE, lines |-> << >>]
    /\ logOpen' = TRUE
    /\ batchNo' = 1
    /\ pc' = "launch"
    /\ faults' = 0
    /\ UNCHANGED << runVars, metaCache, casCache, files, cas_numbers, results,
                    sattempt, sds_data, ops, frame >>

\* Lines 253-256: the next chunk's generator is unpacked into coroutines and
\* gather schedules them.  The generator subscripts each element: an element
\* that is None raises TypeError, which leaves the async with (closing
\* error.log) before anything of the batch is scheduled.
LaunchBatch ==
    /\ pc = "launch"
    /\ batchNo <= Len(Batches)
    /\ LET batch == Batches[batchNo]
       IN IF \E k \in 1..Len(batch) : batch[k] = None
          THEN /\ logOpen' = FALSE
               /\ pc' = "raised"
               /\ UNCHANGED << ops, frame >>
          ELSE /\ ops' = ops \o [k \in 1..Len(batch) |-> NewOp(batch[k], batchNo)]
               /\ frame' = [i \in DOMAIN frame \cup (Len(ops) + 1)..(Len(ops) + Len(batch)) |->
                              IF i \in DOMAIN frame THEN frame[i] ELSE NewFrame]
               /\ pc' = "gather"
               /\ logOpen' = logOpen
    /\ NoFault
    /\ UNCHANGED << runVars, metaCache, casCache, errorLog, files, cas_numbers,
                    results, sattempt, sds_data, batchNo >>

\* The event loop runs the first step of the tasks gather created in the
\* order of their creation, before any of their awaits can complete.
Scheduled(i) == \A j \in 1..Len(ops) : ops[j].pc = "new" => j >= i

AllStarted == \A j \in 1..Len(ops) : ops[j].pc # "new"

\* (A variant of gather that returns when the first awaitable is done.)
BatchComplete_any == \E i \in OpsOfBatch(batchNo) : ops[i].pc = "done"

\* Lines 254-259: gather returns when every awaitable of the batch is done.
BatchComplete == \A i \in OpsOfBatch(batchNo) : ops[i].pc = "done"

\* Lines 253-259: the batch is over; its coroutines are gone, and the loop
\* goes on to the next chunk.
GatherReturns ==
    /\ pc = "gather"
    /\ BatchComplete
    /\ frame' = [i \in { j \in DOMAIN frame : ~ Terminal(ops[j]) } |-> frame[i]]
    /\ batchNo' = batchNo + 1
    /\ pc' = "launch"
    /\ NoFault
    /\ UNCHANGED << runVars, metaCache, casCache, errorLog, logOpen, files,
                    cas_numbers, results, sattempt, sds_data, ops >>

\* Lines 252-259: an awaitable of the batch raised; gather re-raises it to
\* download_all_sds, which leaves the async with, closing error.log.  The
\* other tasks of the batch are not cancelled; each of them has run its
\* first step by then.
GatherRaises ==
    /\ pc = "gather"
    /\ AllStarted
    /\ \E i \in OpsOfBatch(batchNo) : ops[i].pc = "raised"
    /\ logOpen' = FALSE
    /\ pc' = "raised"
    /\ NoFault
    /\ UNCHANGED << runVars, metaCache, casCache, errorLog, files, cas_numbers,
                    results, sattempt, sds_data, batchNo, ops, frame >>

\* Lines 252-253: the loop is over; the async with closes error.log.
FinishRun ==
    /\ pc = "launch"
    /\ batchNo > Len(Batches)
    /\ logOpen' = FALSE
    /\ pc' = "done"
    /\ NoFault
    /\ UNCHANGED << runVars, metaCache, casCache, errorLog, files, cas_numbers,
                    results, sattempt, sds_data, batchNo, ops, frame >>

(***************************************************************************)
(* _download_single_sds_with_dir and download_single_sds.                  *)
(***************************************************************************)
\* (A variant of the test of line 192 that takes -1 for no failure.)
LogsFailure_positive(status) == status > 200

\* Line 192: whether the status download_single_sds returned is logged.
LogsFailure(status) == status # 200

\* Lines 170, 172, 192: download_single_sds returns status to
\* _download_single_sds_with_dir, which goes on to log it or is done.
Returns(op, fr, status) ==
    [op |-> [op EXCEPT !.returned = TRUE, !.ret = status,
                       !.pc = IF LogsFailure(status) THEN "log_write" ELSE "done"],
     fr |-> fr]

\* Lines 154-156: the next iteration of the retry loop sends its request.
Requests(op, fr) ==
    [op |-> [op EXCEPT !.pc = "req"],
     fr |-> [fr EXCEPT !.attempt = @ + 1, !.requests = @ + 1]]

\* (A variant of the retry loop in which an exception does not use up an
\* iteration.)
NextAttempt_exceptionIsFree(op, fr, raised) ==
    IF fr.attempt < max_retries \/ raised
    THEN [op |-> [op EXCEPT !.pc = "req"],
          fr |-> [fr EXCEPT !.attempt = IF raised THEN @ ELSE @ + 1,
                            !.requests = @ + 1]]
    ELSE Returns(op, fr, fr.status_code)

\* Lines 154-155, 164, 172: an attempt is over without a return, by continue
\* or (raised) by an exception that suppress swallows, which the loop treats
\* alike: it goes on, or is exhausted.
NextAttempt(op, fr, raised) ==
    IF fr.attempt < max_retries
    THEN Requests(op, fr)
    ELSE Returns(op, fr, fr.status_code)

\* (A variant of line 170 that does not return, so that the loop goes on.)
Completes_noReturn(op, fr) ==
    NextAttempt(op, [fr EXCEPT !.completedAt = fr.attempt], FALSE)

\* Lines 166-170: the body is streamed to its end; the file is closed and
\* status_code is returned.
Completes(op, fr) ==
    Returns(op, [fr EXCEPT !.completedAt = fr.attempt], fr.status_code)

\* A step of coroutine i leaves it, and its locals, as next says.
Put(i, next) ==
    /\ ops' = [ops EXCEPT ![i] = next.op]
    /\ frame' = [frame EXCEPT ![i] = next.fr]

\* Lines 191-192, 153-161: the first step of the coroutine: the directory is
\* made (or mkdir raises), download_single_sds is entered and sends the
\* request of its first attempt.
OpStart(i) ==
    /\ ops[i].pc = "new"
    /\ Scheduled(i)
    /\ \/ /\ NoFault
          /\ Put(i, IF max_retries > 0
                    THEN Requests(ops[i], frame[i])
                    ELSE Returns(ops[i], frame[i], frame[i].status_code))
       \/ /\ Fault
          /\ Put(i, [op |-> [ops[i] EXCEPT !.pc = "raised"], fr |-> frame[i]])
    /\ UNCHANGED << pc, runVars, metaCache, casCache, errorLog, logOpen, files,
                    cas_numbers, results, sattempt, sds_data, batchNo >>

\* Lines 156-166: the answer to the request of an attempt.
OpResponse(i) ==
    /\ ops[i].pc = "req"
    /\ AllStarted
    /\ \/ \* a transport exception: suppressed
          /\ Fault
          /\ Put(i, NextAttempt(ops[i], frame[i], TRUE))
          /\ files' = files
       \/ \* a status other than 200: continue
          \E s \in ErrorStatuses :
             /\ Fault
             /\ Put(i, NextAttempt(ops[i],
                                   [frame[i] EXCEPT !.status_code = s, !.lastBad = s,
                                                    !.gotStatus = TRUE],
                                   FALSE))
             /\ files' = files
       \/ \* 200: the target file is opened with mode "wb"
          /\ NoFault
          /\ Put(i, [op |-> [ops[i] EXCEPT !.pc = "stream"],
                     fr |-> [frame[i] EXCEPT !.status_code = 200, !.gotStatus = TRUE,
                                             !.pos = 0]])
          /\ files' = [files EXCEPT ![Path(ops[i].sds)] = File(<< >>)]
    /\ UNCHANGED << pc, runVars, metaCache, casCache, errorLog, logOpen,
                    cas_numbers, results, sattempt, sds_data, batchNo >>

\* Lines 167-170: the stream yields its next chunk, which is written at the
\* handle's offset; after the last one the file is closed and status_code is
\* returned.  Or the stream (or the write) raises: suppressed.
OpChunk(i) ==
    /\ ops[i].pc = "stream"
    /\ LET path == Path(ops[i].sds)
           body == Body(ops[i].sds)
           fr == frame[i]
       IN \/ /\ NoFault
             /\ files' = [files EXCEPT ![path] =
                            File(WriteAt(files[path].content, fr.pos, body[fr.pos + 1]))]
             /\ Put(i, IF fr.pos + 1 < Len(body)
                       THEN [op |-> ops[i], fr |-> [fr EXCEPT !.pos = @ + 1]]
                       ELSE Completes(ops[i], [fr EXCEPT !.pos = @ + 1]))
          \/ /\ Fault
             /\ Put(i, NextAttempt(ops[i], fr, TRUE))
             /\ files' = files
    /\ UNCHANGED << pc, runVars, metaCache, casCache, errorLog, logOpen,
                    cas_numbers, results, sattempt, sds_data, batchNo >>

\* json.dumps({"status": status, **sds}) + "\n"
LogRecord(status, sds) ==
    [status |-> status, name |-> sds.name, brand |-> sds.brand,
     product_number |-> sds.product_number, cas_number |-> sds.cas_number]

\* (A variant in which each coroutine writes through a handle of its own,
\* opened on error.log when the coroutine starts, so at offset 0.)
OpLogWrite_ownHandle(i) ==
    /\ ops[i].pc = "log_write"
    /\ \/ /\ logOpen
          /\ NoFault
          /\ errorLog' = [errorLog EXCEPT !.lines =
                            WriteAt(@, 0, LogRecord(ops[i].ret, ops[i].sds))]
          /\ ops' = [ops EXCEPT ![i].pc = "log_flush"]
       \/ /\ IF logOpen THEN Fault ELSE NoFault
          /\ ops' = [ops EXCEPT ![i].pc = "raised"]
          /\ errorLog' = errorLog
    /\ UNCHANGED << pc, runVars, metaCache, casCache, logOpen, files, cas_numbers,
                    results, sattempt, sds_data, batchNo, frame >>

\* Line 193: the record is written to error.log; the write raises if the file
\* was closed meanwhile, or on an I/O error.
OpLogWrite(i) ==
    /\ ops[i].pc = "log_write"
    /\ \/ /\ logOpen
          /\ NoFault
          /\ errorLog' = [errorLog EXCEPT !.lines =
                            Append(@, LogRecord(ops[i].ret, ops[i].sds))]
          /\ ops' = [ops EXCEPT ![i].pc = "log_flush"]
       \/ /\ IF logOpen THEN Fault ELSE NoFault
          /\ ops' = [ops EXCEPT ![i].pc = "raised"]
          /\ errorLog' = errorLog
    /\ UNCHANGED << pc, runVars, metaCache, casCache, logOpen, files, cas_numbers,
                    results, sattempt, sds_data, batchNo, frame >>

\* Line 194: the flush; it raises if the file was closed meanwhile.
OpLogFlush(i) ==
    /\ ops[i].pc = "log_flush"
    /\ NoFault
    /\ ops' = [ops EXCEPT ![i].pc = IF logOpen THEN "done" ELSE "raised"]
    /\ UNCHANGED << pc, runVars, metaCache, casCache, errorLog, logOpen, files,
                    cas_numbers, results, sattempt, sds_data, batchNo, frame >>

Next ==
    \/ LoadMetadataCache
    \/ LoadCasCache
    \/ RequestCasNumbers
    \/ GetCasNumbersResponse
    \/ WriteCasCache
    \/ SearchCasNumbers
    \/ CollapseResults
    \/ WriteMetadataCache
    \/ OpenErrorLog
    \/ LaunchBatch
    \/ GatherReturns
    \/ GatherRaises
    \/ FinishRun
    \/ \E i \in 1..Len(ops) :
         \/ OpStart(i)
         \/ OpResponse(i)
         \/ OpChunk(i)
         \/ OpLogWrite(i)
         \/ OpLogFlush(i)

Spec == Init /\ [][Next]_vars

(***************************************************************************)
(* Functions of the class called on their own: the target path of line     *)
(* 243, the body of search_cas_numbers after its retry loop, and           *)
(* build_query with generate_key.  download_all_sds is not running.        *)
(***************************************************************************)
runState ==
    << download_chunk_size, metadata_chunk_size, registry, metaCache, casCache,
       errorLog, logOpen, files, cas_numbers, results, sattempt, sds_data, batchNo,
       ops, frame, faults, metaAtStart >>

\* The instance after __init__, before any call; pc tells whether the function
\* under study has been called ("call") and has returned ("return").
Constructed ==
    /\ pc = "call"
    /\ download_chunk_size = 1
    /\ metadata_chunk_size = 1
    /\ registry = << >>
    /\ metaCache = NoCache
    /\ casCache = NoCache
    /\ errorLog = NoLog
    /\ logOpen = FALSE
    /\ files = [p \in AllPaths |-> NoFile]
    /\ cas_numbers = << >>
    /\ results = << >>
    /\ sattempt = 1
    /\ sds_data = << >>
    /\ batchNo = 1
    /\ ops = << >>
    /\ frame = << >>
    /\ faults = 0
    /\ metaAtStart = NoCache
    /\ keys = {}
    /\ output = << >>

\* Brand keys and product numbers as the vendor may spell them.
Brands == {"SIAL", "SIAL_X", "MM"}

ProductNumbers == {"1", "X_1", "2"}

CasNumbers == {"50-00-0", "64-17-5"}

SdsArguments ==
    [name : {"n"}, brand : Brands, product_number : ProductNumbers,
     cas_number : CasNumbers]

InitPath ==
    /\ Constructed
    /\ input \in [1..2 -> SdsArguments]

\* Line 243: the target paths of two descriptors.
TargetPaths ==
    /\ pc = "call"
    /\ output' = [k \in DOMAIN input |-> Path(input[k])]
    /\ pc' = "return"
    /\ UNCHANGED << runState, keys, input >>

SpecPath == InitPath /\ [][TargetPaths]_vars

\* The items a result group of a search response may hold.
SearchItems ==
    { Item("Formaldehyde", "SIAL", "F8775", "50-00-0"),
      Item("Formalin kit", "MM", "1.00496", JsonNull),
      Item("Water", "SIAL", "W4502", "") }

SeqsUpTo(S, n) == UNION { [1..k -> S] : k \in 0..n }

InitSearch ==
    /\ Constructed
    /\ input \in SeqsUpTo(SeqsUpTo(SearchItems, MaxItems), MaxItems)

\* Lines 136-150: the response with status 200 carries the result groups of
\* input; the comprehension runs over the groups and over their items.
SearchReturns ==
    /\ pc = "call"
    /\ output' = Descriptors(Flatten(input))
    /\ pc' = "return"
    /\ UNCHANGED << runState, keys, input >>

SpecSearch == InitSearch /\ [][SearchReturns]_vars

\* string.ascii_letters, as far as the model shuffles it.
ascii_letters == << "a", "b", "c", "d", "e" >>

RECURSIVE Join(_)
Join(strs) == IF strs = << >> THEN "" ELSE Head(strs) \o Join(Tail(strs))

\* Line 98: "".join(random.sample(ascii_letters, len(ascii_letters))), every
\* value it can have: the letters in some order.
Samples ==
    { Join([k \in 1..MaxLetters |-> ascii_letters[f[k]]]) :
        f \in { g \in [1..MaxLetters -> 1..MaxLetters] :
                  \A j, k \in 1..MaxLetters : j # k => g[j] # g[k] } }

InitKeys ==
    /\ Constructed
    /\ input \in Registries \ { << >> }

\* Lines 97-101, 104-110: build_query calls generate_key for the next CAS
\* number of input.  A sample that is in _keys is added to _keys and another
\* is drawn; a sample that is not is returned as it is.
GenerateKey ==
    /\ pc = "call"
    /\ Len(output) < Len(input)
    /\ \E key \in Samples :
         IF key \in keys
         THEN /\ keys' = keys \cup {key}
              /\ output' = output
         ELSE /\ keys' = keys
              /\ output' = Append(output, key)
    /\ UNCHANGED << pc, runState, input >>

\* Line 111: every CAS number has its alias; build_query returns.
BuildQueryReturns ==
    /\ pc = "call"
    /\ Len(output) = Len(input)
    /\ pc' = "return"
    /\ UNCHANGED << runState, keys, input, output >>

NextKeys == GenerateKey \/ BuildQueryReturns

SpecKeys == InitKeys /\ [][NextKeys]_vars

(***************************************************************************)
(* Helpers of the properties.                                              *)
(***************************************************************************)
\* x is a descriptor: an object with the fields the download stage reads.
IsDescriptor(x) == {"brand", "product_number", "cas_number"} \subseteq DOMAIN x

\* Some batch of the metadata stage ended with "no result".
HasNone(seq) == \E k \in 1..Len(seq) : seq[k] = None

CeilDiv(n, d) == (n + d - 1) \div d

\* How often record r occurs in a sequence.
Count(seq, r) == Cardinality({ k \in 1..Len(seq) : seq[k] = r })

\* The operations whose download_single_sds call returned a status that is
\* not 200, and the records they are due.
FailedOps == { i \in 1..Len(ops) : ops[i].returned /\ ops[i].ret # 200 }

DueRecords == { LogRecord(ops[i].ret, ops[i].sds) : i \in FailedOps }

\* No other operation of the run has the target path of operation i.
SoleWriter(i) ==
    \A j \in 1..Len(ops) : j # i => Path(ops[j].sds) # Path(ops[i].sds)

TargetOf(i) == files[Path(ops[i].sds)]

IsPrefix(s, t) == Len(s) <= Len(t) /\ SubSeq(t, 1, Len(s)) = s

\* The operations that have their target file open for writing.
Writing == { i \in 1..Len(ops) : ops[i].pc = "stream" }

\* The operations whose write of line 193 is known to have returned: they
\* are at the flush, or done after a status that is not 200.
Written == { i \in FailedOps : ops[i].pc \in {"log_flush", "done"} }

(***************************************************************************)
(* The properties.                                                         *)
(***************************************************************************)

\* C1: no download operation of batch i+1 is launched before every download
\* operation of batch i is at a terminal state (done, after returning 200 or
\* a non-200 status, or raised).
C1_BatchesSequential ==
    \A i, j \in 1..Len(ops) : ops[i].batch < ops[j].batch => Terminal(ops[i])

C1_Witness ==
    \E i, j \in 1..Len(ops) :
        /\ ops[i].batch < ops[j].batch
        /\ ops[i].returned /\ ops[i].ret # 200
        /\ ops[j].pc = "stream"

\* C2: a run that ends without exception has split the descriptors into
\* ceil(N/B) contiguous batches in the original order, only the last of which
\* may be smaller than B, and has launched exactly one download operation per
\* descriptor, in that order, each of which called download_single_sds and
\* got its result.
C2_EveryDescriptorOnce ==
    pc = "done" =>
        /\ Len(Batches) = CeilDiv(Len(sds_data), download_chunk_size)
        /\ Flatten(Batches) = sds_data
        /\ \A b \in 1..Len(Batches) :
              /\ Len(Batches[b]) >= 1
              /\ Len(Batches[b]) <= download_chunk_size
              /\ b < Len(Batches) => Len(Batches[b]) = download_chunk_size
        /\ Len(ops) = Len(sds_data)
        /\ \A i \in 1..Len(ops) :
              /\ ops[i].sds = sds_data[i]
              /\ ops[i].batch = CeilDiv(i, download_chunk_size)
              /\ ops[i].returned
              /\ ops[i].pc = "done"

C2_Witness ==
    /\ pc = "done"
    /\ Len(sds_data) = 3
    /\ download_chunk_size = 2

\* C3: the number of download operations launched and not yet at a terminal
\* state never exceeds download_chunk_size.
C3_InFlightBounded == Cardinality(InFlight) <= download_chunk_size

C3_Witness ==
    /\ Len(sds_data) > download_chunk_size
    /\ download_chunk_size > 1
    /\ Cardinality(InFlight) = download_chunk_size
    /\ \A i \in InFlight : ops[i].pc \in {"req", "stream"}

\* C4: download_single_sds sends at most max_retries requests; when every
\* attempt ended with an exception before a status was seen, it has sent
\* exactly max_retries requests when it returns, and it returns -1.
C4_RetryBound ==
    \A i \in DOMAIN frame :
        /\ frame[i].requests <= max_retries
        /\ (ops[i].returned /\ ~ frame[i].gotStatus) =>
              (frame[i].requests = max_retries /\ ops[i].ret = -1)

C4_Witness ==
    \E i \in DOMAIN frame :
        /\ ops[i].returned
        /\ ~ frame[i].gotStatus
        /\ frame[i].requests = max_retries

\* C5: once an attempt of download_single_sds has received 200 and streamed
\* the body to its end, the call has returned 200 and sends no further
\* request (so a 200 on the first attempt makes one request), and the target
\* file holds exactly the streamed body, no other operation writing to it.
C5_SuccessShortCircuit ==
    \A i \in DOMAIN frame :
        frame[i].completedAt > 0 =>
            /\ ops[i].returned
            /\ ops[i].ret = 200
            /\ frame[i].requests = frame[i].completedAt
            /\ SoleWriter(i) => TargetOf(i) = File(Body(ops[i].sds))

C5_Witness ==
    \E i \in DOMAIN frame :
        /\ frame[i].completedAt = 1
        /\ frame[i].requests = 1
        /\ SoleWriter(i)
        /\ TargetOf(i) = File(Body(ops[i].sds))

\* C6: download_single_sds returns 200 only if an attempt received 200 and
\* wrote the whole body; if no attempt did, it returns the last status it saw
\* that is not 200, or -1 if it saw none.
C6_Returns200OnlyOnSuccess ==
    \A i \in DOMAIN frame :
        ops[i].returned =>
            /\ ops[i].ret = 200 => frame[i].completedAt > 0
            /\ frame[i].completedAt = 0 => ops[i].ret = frame[i].lastBad

\* C7: when a run has processed all batches, error.log holds one record for
\* each operation whose download_single_sds call returned a status that is not
\* 200, with that status and that descriptor's fields, and nothing else.
C7_LogComplete ==
    pc = "done" =>
        /\ Len(errorLog.lines) = Cardinality(FailedOps)
        /\ \A k \in 1..Len(errorLog.lines) :
              /\ errorLog.lines[k].status # 200
              /\ errorLog.lines[k] \in DueRecords
        /\ \A r \in DueRecords :
              Count(errorLog.lines, r) =
                 Cardinality({ i \in FailedOps : LogRecord(ops[i].ret, ops[i].sds) = r })

C7_Witness ==
    /\ pc = "done"
    /\ Cardinality(FailedOps) = 2
    /\ Len(errorLog.lines) = 2
    /\ \E i \in 1..Len(ops) : ops[i].ret = 200

\* C8: whenever an operation is not in the middle of streaming a body, its
\* target path holds no file or a complete body (no other operation writing
\* to that path): a failed attempt leaves no partial file behind.
C8_NoPartialFile ==
    \A i \in DOMAIN frame :
        (ops[i].pc # "stream" /\ SoleWriter(i)) =>
            TargetOf(i) \in {NoFile, File(Body(ops[i].sds))}

\* C9: if the metadata cache file exists when the run starts, no step of the
\* run sends a registry or search request, reads or writes the CAS cache file
\* or writes the metadata cache file, and the descriptors the download stage
\* works on are the cached content.
C9_MetadataCacheShortCircuits ==
    [][metaAtStart.exists =>
          /\ ~ RequestCasNumbers
          /\ ~ GetCasNumbersResponse
          /\ ~ SearchCasNumbers
          /\ ~ LoadCasCache
          /\ ~ WriteCasCache
          /\ ~ CollapseResults
          /\ ~ WriteMetadataCache
          /\ casCache' = casCache
          /\ metaCache' = metaCache
          /\ pc' \in {"open_log", "launch", "gather", "done"} =>
                sds_data' = Loads(metaAtStart).value]_vars

C9_Witness ==
    /\ metaAtStart.exists
    /\ pc = "done"
    /\ Len(ops) = 3

\* C10: in every state, each of the CAS cache file and the metadata cache
\* file is absent or holds a complete JSON document that json.loads parses.
C10_CachesAbsentOrComplete ==
    /\ casCache.exists => Loads(casCache).ok
    /\ metaCache.exists => Loads(metaCache).ok

\* C11: search_cas_numbers never raises to its caller: no step taken while
\* download_all_sds awaits it ends the run with an exception (a malformed
\* body leads to a retry like any other failure), and it hands back "no
\* result" only when the attempt that failed was the max_retries-th.
C11_SearchNeverRaises ==
    [][pc = "search" =>
          /\ pc' # "raised"
          /\ (Len(results') > Len(results) /\ results'[Len(results')].isNone) =>
                sattempt = max_retries]_vars

\* C12: a metadata batch whose retries are exhausted does not make the run
\* raise: the download stage launches every batch, and a run that is done has
\* launched and finished an operation for every descriptor resolved by the
\* other metadata batches.
C12_ResolverFailureTolerated ==
    [][/\ (pc = "launch" /\ HasNone(sds_data)) => pc' # "raised"
       /\ (pc' = "done" /\ HasNone(sds_data')) =>
             \A k \in 1..Len(sds_data') :
                sds_data'[k] # None =>
                   \E i \in 1..Len(ops') :
                      ops'[i].sds = sds_data'[k] /\ ops'[i].pc = "done"]_vars

\* C13: the target path is a function of (cas_number, brand, product_number),
\* and under one cas_number two descriptors that differ in brand or in
\* product_number have different target paths.
C13_PathInjective ==
    pc = "return" =>
        \A j, k \in DOMAIN input :
            /\ input[j] = input[k] => output[j] = output[k]
            /\ ( /\ input[j].cas_number = input[k].cas_number
                 /\ << input[j].brand, input[j].product_number >>
                      # << input[k].brand, input[k].product_number >> )
               => output[j] # output[k]

\* C14: every entry of the metadata cache file, and every element of the
\* sequence the download stage works on, is a descriptor with brand,
\* product_number and cas_number; there is no null entry.
C14_OnlyDescriptors ==
    /\ \A k \in 1..Len(metaCache.items) : IsDescriptor(metaCache.items[k])
    /\ pc \in {"open_log", "launch", "gather", "done"} =>
          \A k \in 1..Len(sds_data) : IsDescriptor(sds_data[k])

\* C15: what search_cas_numbers returns for a response is the items of the
\* result groups, in the order of the response, without those whose casNumber
\* is null or empty, each as a descriptor: no descriptor returned has a null
\* or empty cas_number and no item with a casNumber is missing.
C15_DropsNullAndEmpty ==
    pc = "return" =>
        LET kept == SelectSeq(Flatten(input),
                              LAMBDA item : item.casNumber \notin {JsonNull, ""})
        IN output = [k \in DOMAIN kept |->
                       [name |-> kept[k].name, brand |-> kept[k].brand,
                        product_number |-> kept[k].productKey,
                        cas_number |-> kept[k].casNumber]]

\* C16: the aliases generate_key has handed out in a build_query call are
\* pairwise distinct, and each of them is recorded in _keys.
C16_KeysDistinctAndRecorded ==
    /\ \A j, k \in DOMAIN output : j # k => output[j] # output[k]
    /\ \A k \in DOMAIN output : output[k] \in keys

C18_LogAppendOnly ==
    [][errorLog.exists =>
          /\ errorLog'.exists
          /\ IsPrefix(errorLog.lines, errorLog'.lines)]_vars

\* C19: once download_all_sds has returned or raised, error.log being closed,
\* no operation it launched takes another step: none sends a request, writes
\* to a target file or writes to error.log.
C19_NothingInFlightAfterExit ==
    [][(pc = "done" \/ pc = "raised") =>
          /\ ops' = ops
          /\ frame' = frame
          /\ files' = files
          /\ errorLog' = errorLog]_vars

\* C20: no two operations have the same target path open for writing at the
\* same time.
C20_OneWriterPerPath ==
    \A i, j \in Writing : i # j => Path(ops[i].sds) # Path(ops[j].sds)

====
